---- MODULE Spec2Model ----
(***************************************************************************)
(* A model of hocon-rs (the grammar engine of hocon-rs/src/parser.rs) and  *)
(* of hocon-ls (the Workspace of hocon-ls/src/workspace.rs and the message *)
(* loop of hocon-ls/src/main.rs).                                          *)
(*                                                                         *)
(* A text is a sequence of characters, each a one-character string.  A     *)
(* parser of the source, fn p(input) -> IResult<rest, value>, becomes an   *)
(* operator p(s, i): s is the whole text and i the index of the first      *)
(* character of `input` (1-based), so that `rest` is the index returned.   *)
(* A &str slice of the text is the record [from, len].                     *)
(***************************************************************************)
EXTENDS Integers, Sequences, FiniteSets, TLC

(***************************************************************************)
(* Characters                                                              *)
(***************************************************************************)
LowerAlpha ==
    {"a","b","c","d","e","f","g","h","i","j","k","l","m",
     "n","o","p","q","r","s","t","u","v","w","x","y","z"}

UpperAlpha ==
    {"A","B","C","D","E","F","G","H","I","J","K","L","M",
     "N","O","P","Q","R","S","T","U","V","W","X","Y","Z"}

Digits == {"0","1","2","3","4","5","6","7","8","9"}

\* char::is_alphanum of nom's AsChar: ASCII letters and decimal digits.
is_alphanum(c) == c \in LowerAlpha \cup UpperAlpha \cup Digits

\* The ASCII part of is_hocon_whitespace: char::is_whitespace holds of
\* space, tab, LF, VT, FF and CR; the explicit list adds the same control
\* characters (the separators U+001C..U+001F have no TLA+ string literal).
is_hocon_whitespace(c) == c \in {" ", "\t", "\n", "\f", "\r"}

\* The characters the verify(anychar, ..) of unquoted_string rejects (the
\* backquote, which has no TLA+ string literal, is not in the alphabet).
unquoted_forbidden(c) ==
    \/ is_hocon_whitespace(c)
    \/ c \in {"$", "\"", "{", "}", "[", "]", ":", "=", ",", "+", "#",
              "^", "?", "!", "@", "*", "&", "\\"}

(***************************************************************************)
(* Parse results: the IResult of nom.  st is ok for Ok((rest, value)), err *)
(* for Err(nom::Err::Error) and fail for Err(nom::Err::Failure), which     *)
(* alt, opt and many0 do not catch.                                        *)
(***************************************************************************)
Unit == [tag |-> "Unit"]

Ok(pos, val) == [st |-> "ok", pos |-> pos, val |-> val]

Error == [st |-> "err", pos |-> 0, val |-> Unit]

Failure == [st |-> "fail", pos |-> 0, val |-> Unit]

Slice(from, len) == [from |-> from, len |-> len]

\* The text a slice denotes.
SliceText(s, sl) == SubSeq(s, sl.from, sl.from + sl.len - 1)

(***************************************************************************)
(* The tree: HoconValue, HoconField, HoconInclusion, HoconString.          *)
(***************************************************************************)
HoconNull == [tag |-> "HoconNull"]

HoconBoolean(b) == [tag |-> "HoconBoolean", b |-> b]

HoconNumber(n) == [tag |-> "HoconNumber", num |-> n]

HoconString(kind, sl) == [tag |-> "HoconString", kind |-> kind, str |-> sl]

HoconArray(items) == [tag |-> "HoconArray", items |-> items]

HoconObject(fields) == [tag |-> "HoconObject", fields |-> fields]

HoconInclude(incl) == [tag |-> "HoconInclude", incl |-> incl]

HoconInclusion(kind, sl) == [kind |-> kind, path |-> sl]

FieldInclude(incl) == [tag |-> "Include", incl |-> incl]

FieldKeyValue(key, value) == [tag |-> "KeyValue", key |-> key, value |-> value]

(***************************************************************************)
(* nom's leaf combinators                                                  *)
(***************************************************************************)
\* tag(t): the text continues with t.
tag(t, s, i) ==
    IF i + Len(t) - 1 <= Len(s) /\ SubSeq(s, i, i + Len(t) - 1) = t
    THEN Ok(i + Len(t), Unit)
    ELSE Error

\* char(c)
char(c, s, i) == tag(<<c>>, s, i)

\* tag_no_case(t), t given in lower case.
Lower(c) ==
    IF c \in UpperAlpha
    THEN CHOOSE l \in LowerAlpha :
            \E k \in 1..26 :
               /\ <<"A","B","C","D","E","F","G","H","I","J","K","L","M",
                    "N","O","P","Q","R","S","T","U","V","W","X","Y","Z">>[k] = c
               /\ <<"a","b","c","d","e","f","g","h","i","j","k","l","m",
                    "n","o","p","q","r","s","t","u","v","w","x","y","z">>[k] = l
    ELSE c

tag_no_case(t, s, i) ==
    IF /\ i + Len(t) - 1 <= Len(s)
       /\ \A k \in 1..Len(t) : Lower(s[i + k - 1]) = t[k]
    THEN Ok(i + Len(t), Unit)
    ELSE Error

\* The index after the maximal run, from i, of characters in the set cs.
RECURSIVE RunEnd(_, _, _)
RunEnd(cs, s, i) ==
    IF i <= Len(s) /\ s[i] \in cs THEN RunEnd(cs, s, i + 1) ELSE i

(***************************************************************************)
(* Sequencing and alternation                                              *)
(***************************************************************************)
\* The next parser of a sequence runs on the result r of the one before;
\* an error of either kind ends the sequence.
AndThen(r, K(_)) == IF r.st = "ok" THEN K(r) ELSE r

\* map(p, F)
MapOk(r, F(_)) == IF r.st = "ok" THEN Ok(r.pos, F(r.val)) ELSE r

\* alt((p, q)): q is tried only when p ended in Err::Error.
OrElse(r, other) == IF r.st # "err" THEN r ELSE other

\* opt(p) where only the position matters: the position after p, or i.
OptPos(r, i) == IF r.st = "ok" THEN r.pos ELSE i

(***************************************************************************)
(* The leaf rules of the grammar                                           *)
(***************************************************************************)
null(s, i) == MapOk(tag(<<"n","u","l","l">>, s, i), LAMBDA v : HoconNull)

\* A variant of boolean whose second alternative repeats the value of the
\* first.
boolean_repeats_true(s, i) ==
    OrElse(MapOk(tag(<<"t","r","u","e">>, s, i), LAMBDA v : HoconBoolean(TRUE)),
           MapOk(tag(<<"f","a","l","s","e">>, s, i), LAMBDA v : HoconBoolean(TRUE)))

boolean(s, i) ==
    OrElse(MapOk(tag(<<"t","r","u","e">>, s, i), LAMBDA v : HoconBoolean(TRUE)),
           MapOk(tag(<<"f","a","l","s","e">>, s, i), LAMBDA v : HoconBoolean(FALSE)))

\* take_while(is_hocon_whitespace): never fails, may take nothing.
RECURSIVE WhitespaceEnd(_, _)
WhitespaceEnd(s, i) ==
    IF i <= Len(s) /\ is_hocon_whitespace(s[i]) THEN WhitespaceEnd(s, i + 1) ELSE i

whitespace(s, i) == Ok(WhitespaceEnd(s, i), Unit)

\* One round of the many1 of unquoted_string takes s[i] when no // starts
\* at i and s[i] is not a forbidden character.
RECURSIVE UnquotedEnd(_, _)
UnquotedEnd(s, i) ==
    IF /\ i <= Len(s)
       /\ tag(<<"/","/">>, s, i).st # "ok"
       /\ ~unquoted_forbidden(s[i])
    THEN UnquotedEnd(s, i + 1)
    ELSE i

\* recognize(many1(..)): the slice from i to e, were it not empty.
SliceTo(i, e) == IF e > i THEN Ok(e, Slice(i, e - i)) ELSE Error

unquoted_string(s, i) == SliceTo(i, UnquotedEnd(s, i))

\* A variant of is_string_char without the negation.
is_string_char_unnegated(c) == is_alphanum(c) \/ c = "."

\* is_string_char of quoted_string: the predicate at which parse_str splits.
is_string_char(c) == ~(is_alphanum(c) \/ c = ".")

\* split_at_position_complete(is_string_char): the text up to the first
\* character is_string_char holds of, or all of it when there is none.
RECURSIVE SplitAtStringChar(_, _)
SplitAtStringChar(s, i) ==
    IF i <= Len(s) /\ ~is_string_char(s[i]) THEN SplitAtStringChar(s, i + 1) ELSE i

SliceUpTo(i, e) == Ok(e, Slice(i, e - i))

parse_str(s, i) == SliceUpTo(i, SplitAtStringChar(s, i))

\* delimited(tag("\""), parse_str, tag("\""))
quoted_string(s, i) ==
    AndThen(tag(<<"\"">>, s, i), LAMBDA open :
    AndThen(parse_str(s, open.pos), LAMBDA body :
    AndThen(tag(<<"\"">>, s, body.pos), LAMBDA close :
    Ok(close.pos, body.val))))

(***************************************************************************)
(* number: nom::number::complete::double.  The f64 is kept as the exact    *)
(* decimal it denotes, (-1)^neg * mant * 10^exp with mant not a multiple   *)
(* of ten, so that 1, 1.0 and 10e-1 are one number; nan and the infinities *)
(* are values of their own.                                                *)
(***************************************************************************)
DigitVal(c) ==
    CHOOSE k \in 0..9 : <<"0","1","2","3","4","5","6","7","8","9">>[k + 1] = c

\* The number the digits s[from..to] spell (0 for no digit).
RECURSIVE NatOf(_, _, _)
NatOf(s, from, to) ==
    IF to < from THEN 0 ELSE NatOf(s, from, to - 1) * 10 + DigitVal(s[to])

RECURSIVE Canon(_, _, _)
Canon(neg, mant, exp) ==
    IF mant = 0 THEN [kind |-> "finite", neg |-> FALSE, mant |-> 0, exp |-> 0]
    ELSE IF mant % 10 = 0 THEN Canon(neg, mant \div 10, exp + 1)
    ELSE [kind |-> "finite", neg |-> neg, mant |-> mant, exp |-> exp]

RECURSIVE Pow10(_)
Pow10(n) == IF n = 0 THEN 1 ELSE 10 * Pow10(n - 1)

NotFinite(kind, neg) == [kind |-> kind, neg |-> neg, mant |-> 0, exp |-> 0]

\* opt(alt((char('+'), char('-')))): the index after an optional sign.
AfterSign(s, i) == IF i <= Len(s) /\ s[i] \in {"+", "-"} THEN i + 1 ELSE i

IsNeg(s, i) == i <= Len(s) /\ s[i] = "-"

\* The exponent of recognize_float, opt((alt((char('e'), char('E'))),
\* opt(sign), cut(digit1))), after a mantissa that ended before index m:
\* an exponent letter commits to at least one digit.
float_exponent_digits(s, m, neg, mant, scale, e1, e2) ==
    IF e2 = e1 THEN Failure
    ELSE Ok(e2, Canon(neg, mant,
                      (IF IsNeg(s, m + 1) THEN 0 - NatOf(s, e1, e2 - 1)
                       ELSE NatOf(s, e1, e2 - 1)) - scale))

float_exponent_sign(s, m, neg, mant, scale, e1) ==
    float_exponent_digits(s, m, neg, mant, scale, e1, RunEnd(Digits, s, e1))

float_exponent(s, m, neg, mant, scale) ==
    IF m <= Len(s) /\ s[m] \in {"e", "E"}
    THEN float_exponent_sign(s, m, neg, mant, scale, AfterSign(s, m + 1))
    ELSE Ok(m, Canon(neg, mant, 0 - scale))

\* The mantissa: integer digits s[p..d-1], and after a dot at d the
\* fraction digits s[d+1..f-1].
float_fraction(s, neg, p, d, f) ==
    IF d = p /\ f = d + 1 THEN Error
    ELSE float_exponent(s, f, neg,
                        NatOf(s, p, d - 1) * Pow10(f - d - 1) + NatOf(s, d + 1, f - 1),
                        f - d - 1)

float_mantissa(s, neg, p, d) ==
    IF d <= Len(s) /\ s[d] = "."
    THEN float_fraction(s, neg, p, d, RunEnd(Digits, s, d + 1))
    ELSE IF d = p THEN Error
    ELSE float_exponent(s, d, neg, NatOf(s, p, d - 1), 0)

float_signed(s, neg, p) == float_mantissa(s, neg, p, RunEnd(Digits, s, p))

\* recognize_float, and the f64 its text parses to.
recognize_float(s, i) == float_signed(s, IsNeg(s, i), AfterSign(s, i))

float_infinity(s, neg, p) ==
    OrElse(MapOk(tag_no_case(<<"i","n","f","i","n","i","t","y">>, s, p),
                 LAMBDA v : NotFinite("inf", neg)),
           MapOk(tag_no_case(<<"i","n","f">>, s, p),
                 LAMBDA v : NotFinite("inf", neg)))

\* recognize_float_or_exceptions followed by str::parse::<f64>.
double(s, i) ==
    OrElse(recognize_float(s, i),
    OrElse(MapOk(tag_no_case(<<"n","a","n">>, s, i),
                 LAMBDA v : NotFinite("nan", FALSE)),
           float_infinity(s, IsNeg(s, i), AfterSign(s, i))))

number(s, i) == MapOk(double(s, i), HoconNumber)

(***************************************************************************)
(* include <kind>("<path>")                                                *)
(***************************************************************************)
\* One alternative of the alt of include: (tag(kind), delimited(char('('),
\* map(quoted_string, ctor), char(')'))).
include_kind(kindTag, ctor, s, i) ==
    AndThen(tag(kindTag, s, i), LAMBDA k :
    AndThen(char("(", s, k.pos), LAMBDA lp :
    AndThen(quoted_string(s, lp.pos), LAMBDA q :
    AndThen(char(")", s, q.pos), LAMBDA rp :
    Ok(rp.pos, HoconInclusion(ctor, q.val))))))

include_resource(s, i) ==
    OrElse(include_kind(<<"u","r","l">>, "Url", s, i),
    OrElse(include_kind(<<"f","i","l","e">>, "File", s, i),
           include_kind(<<"c","l","a","s","s","p","a","t","h">>, "Classpath", s, i)))

include(s, i) ==
    AndThen(tag(<<"i","n","c","l","u","d","e">>, s, i), LAMBDA kw :
    include_resource(s, WhitespaceEnd(s, kw.pos)))

(***************************************************************************)
(* The recursive rules: parse_value, key_value, object_field, array and    *)
(* parse_object                                                            *)
(***************************************************************************)
RECURSIVE parse_value(_, _)
RECURSIVE key_value(_, _)
RECURSIVE object_field(_, _)
RECURSIVE many0_object_field(_, _, _)
RECURSIVE array(_, _)
RECURSIVE parse_object(_, _)

\* (whitespace, opt(char(',')))
next_element_comma(s, i) == Ok(OptPos(char(",", s, i), i), Unit)

next_element_whitespace(s, i) == next_element_comma(s, WhitespaceEnd(s, i))

\* A variant of separator that consumes the brace.
separator_consumes_brace(s, i) ==
    IF char(":", s, i).st = "ok" \/ char("=", s, i).st = "ok" \/ char("{", s, i).st = "ok"
    THEN Ok(i + 1, Unit)
    ELSE Error

\* alt((char(':'), char('='), peek(char('{')))): the peeked brace is left.
separator(s, i) ==
    IF char(":", s, i).st = "ok" \/ char("=", s, i).st = "ok" THEN Ok(i + 1, Unit)
    ELSE IF char("{", s, i).st = "ok" THEN Ok(i, Unit)
    ELSE Error

\* alt((quoted_string, unquoted_string)) after whitespace
key_path(s, i) == OrElse(quoted_string(s, i), unquoted_string(s, i))

key_value(s, i) ==
    AndThen(key_path(s, WhitespaceEnd(s, i)), LAMBDA path :
    AndThen(separator(s, WhitespaceEnd(s, path.pos)), LAMBDA sep :
    AndThen(parse_value(s, WhitespaceEnd(s, sep.pos)), LAMBDA value :
    Ok(next_element_whitespace(s, value.pos).pos,
       [key |-> path.val, value |-> value.val]))))

object_field(s, i) ==
    OrElse(MapOk(include(s, i), FieldInclude),
           MapOk(key_value(s, i), LAMBDA kv : FieldKeyValue(kv.key, kv.value)))

\* A variant of many0_step that keeps the fields as a map keeps them: a
\* pair replaces the pair of the same key collected before it.
many0_step_dedupes(s, i, acc, r) ==
    IF r.st = "err" THEN Ok(i, acc)
    ELSE IF r.st = "fail" THEN r
    ELSE IF r.pos = i THEN Error
    ELSE many0_object_field(s, r.pos,
            Append(SelectSeq(acc, LAMBDA f :
                      ~(/\ f.tag = "KeyValue"
                        /\ r.val.tag = "KeyValue"
                        /\ SliceText(s, f.key) = SliceText(s, r.val.key))),
                   r.val))

\* The loop of many0(object_field) and, after its first element, of
\* many1(object_field): stop at the first Error, give up on an element
\* that consumed nothing.
many0_step(s, i, acc, r) ==
    IF r.st = "err" THEN Ok(i, acc)
    ELSE IF r.st = "fail" THEN r
    ELSE IF r.pos = i THEN Error
    ELSE many0_object_field(s, r.pos, Append(acc, r.val))

many0_object_field(s, i, acc) == many0_step(s, i, acc, object_field(s, i))

many1_object_field(s, i) ==
    AndThen(object_field(s, i), LAMBDA first :
    many0_object_field(s, first.pos, <<first.val>>))

parse_inner0(s, i) == MapOk(many0_object_field(s, i, <<>>), HoconObject)

parse_inner1(s, i) == MapOk(many1_object_field(s, i), HoconObject)

\* delimited(char('{'), parse_inner0, char('}'))
braced_object(s, i) ==
    AndThen(char("{", s, i), LAMBDA open :
    AndThen(parse_inner0(s, open.pos), LAMBDA inner :
    AndThen(char("}", s, inner.pos), LAMBDA close :
    Ok(close.pos, inner.val))))

parse_object(s, i) == OrElse(braced_object(s, i), parse_inner1(s, i))

\* preceded(whitespace, parse_value)
array_element(s, i) == parse_value(s, WhitespaceEnd(s, i))

\* alt((char(','), char('\n')))
array_separator(s, i) == OrElse(char(",", s, i), char("\n", s, i))

\* The loop of separated_list0 after its first element: a separator that
\* no element follows is left unconsumed.
RECURSIVE separated_list0_loop(_, _, _)

separated_list0_step(s, i, acc, el) ==
    IF el.st = "err" THEN Ok(i, acc)
    ELSE IF el.st = "fail" THEN el
    ELSE IF el.pos = i THEN Error
    ELSE separated_list0_loop(s, el.pos, Append(acc, el.val))

separated_list0_sep(s, i, acc, sep) ==
    IF sep.st # "ok" THEN Ok(i, acc)
    ELSE separated_list0_step(s, i, acc, array_element(s, sep.pos))

separated_list0_loop(s, i, acc) ==
    separated_list0_sep(s, i, acc, array_separator(s, i))

separated_list0_first(s, i, first) ==
    IF first.st = "err" THEN Ok(i, <<>>)
    ELSE IF first.st = "fail" THEN first
    ELSE separated_list0_loop(s, first.pos, <<first.val>>)

separated_list0(s, i) == separated_list0_first(s, i, array_element(s, i))

\* delimited(char('['), map(terminated(separated_list0(..), opt(char(','))),
\* HoconArray), char(']'))
array(s, i) ==
    AndThen(char("[", s, i), LAMBDA open :
    AndThen(separated_list0(s, open.pos), LAMBDA list :
    AndThen(char("]", s, OptPos(char(",", s, list.pos), list.pos)), LAMBDA close :
    Ok(close.pos, HoconArray(list.val)))))

\* alt: the first alternative that does not end in Error decides.
parse_value(s, i) ==
    OrElse(null(s, i),
    OrElse(MapOk(include(s, i), HoconInclude),
    OrElse(boolean(s, i),
    OrElse(number(s, i),
    OrElse(array(s, i),
    OrElse(parse_object(s, i),
    OrElse(MapOk(unquoted_string(s, i), LAMBDA v : HoconString("Unqouted", v)),
           MapOk(quoted_string(s, i), LAMBDA v : HoconString("Quoted", v)))))))))

(***************************************************************************)
(* parse: the entry point                                                  *)
(***************************************************************************)
\* all_consuming(p): p must have taken the whole text.
all_consuming(s, r) == IF r.st = "ok" /\ r.pos # Len(s) + 1 THEN Error ELSE r

\* map(all_consuming(whitespace), |_| HoconObject(vec![]))
empty_content(s, i) ==
    MapOk(all_consuming(s, whitespace(s, i)), LAMBDA v : HoconObject(<<>>))

\* Result<HoconValue, HoconError>: both kinds of nom error become
\* HoconError::ParseError.
ParseOk(value) == [ok |-> TRUE, value |-> value]

ParseError == [ok |-> FALSE, value |-> Unit]

\* The match of parse: Ok((_, value)) => Ok(value) drops the rest.
parse_result(r) == IF r.st = "ok" THEN ParseOk(r.val) ELSE ParseError

\* A variant of parse_alt without the empty_content alternative.
parse_alt_object_only(input) == parse_object(input, 1)

\* alt((empty_content, parse_object)).parse(input)
parse_alt(input) == OrElse(empty_content(input, 1), parse_object(input, 1))

parse(input) == parse_result(parse_alt(input))

(***************************************************************************)
(* What a tree says: the tree with each &str slice replaced by the text it *)
(* points at, which is what the derived PartialEq and Debug of HoconValue  *)
(* read.  A slice that does not lie in the text read is Dangling.          *)
(***************************************************************************)
Dangling == <<"<dangling>">>

Deref(s, sl) ==
    IF sl.from >= 1 /\ sl.from + sl.len - 1 <= Len(s) THEN SliceText(s, sl)
    ELSE Dangling

RECURSIVE ValueContent(_, _)
RECURSIVE FieldContent(_, _)

ValueContent(v, s) ==
    CASE v.tag = "HoconString" -> HoconString(v.kind, Deref(s, v.str))
      [] v.tag = "HoconArray" ->
            HoconArray([k \in 1..Len(v.items) |-> ValueContent(v.items[k], s)])
      [] v.tag = "HoconObject" ->
            HoconObject([k \in 1..Len(v.fields) |-> FieldContent(v.fields[k], s)])
      [] v.tag = "HoconInclude" ->
            HoconInclude(HoconInclusion(v.incl.kind, Deref(s, v.incl.path)))
      [] OTHER -> v

FieldContent(f, s) ==
    IF f.tag = "Include"
    THEN FieldInclude(HoconInclusion(f.incl.kind, Deref(s, f.incl.path)))
    ELSE FieldKeyValue(Deref(s, f.key), ValueContent(f.value, s))

\* The slices of a tree, as a set.
RECURSIVE ValueSlices(_)
RECURSIVE FieldSlices(_)

ValueSlices(v) ==
    CASE v.tag = "HoconString" -> {v.str}
      [] v.tag = "HoconArray" ->
            UNION {ValueSlices(v.items[k]) : k \in 1..Len(v.items)}
      [] v.tag = "HoconObject" ->
            UNION {FieldSlices(v.fields[k]) : k \in 1..Len(v.fields)}
      [] v.tag = "HoconInclude" -> {v.incl.path}
      [] OTHER -> {}

FieldSlices(f) ==
    IF f.tag = "Include" THEN {f.incl.path}
    ELSE {f.key} \cup ValueSlices(f.value)

(***************************************************************************)
(* The Workspace (hocon-ls/src/workspace.rs)                               *)
(*                                                                         *)
(* open_files is the HashMap<String, OpenFile>, a function on the paths    *)
(* with NoFile where the map has no entry.  heap holds the Box<String> of  *)
(* every OpenFile by address.  A HoconValue<'a> borrows from one &'a str:  *)
(* hocon is the pair of the address borrowed from and the tree.            *)
(***************************************************************************)
NumPaths == 2

Paths == 1..NumPaths

\* One address more than there are paths: open_file boxes the new content
\* before insert drops the old OpenFile.
Addrs == 1..(NumPaths + 1)

\* The texts the Workspace is opened with.
WsTexts ==
    { <<>>,
      <<"a", ":", "1">>,
      <<"{", "b", ":", "x", "}">>,
      <<"{", "}", "x">>,
      <<"{">>,
      <<"n", "u", "l", "l">> }

VARIABLES
    open_files,   \* Workspace.open_files
    heap,         \* the boxes: address -> [live, text]
    ret,          \* the last operation, its arguments and what it returned
    opened,       \* history: per path, its last successful open: the text
                  \* given and the tree a lookup returned right after it
    parse_input,  \* the text given to parse or to a rule, or the parts (elements,
                  \* fields, tokens) the texts given are written from
    result,       \* what parse, or one rule of the grammar, returned
    msg,          \* main_loop: the message handled last
    loop          \* main_loop: the state of the loop

wsVars == <<open_files, heap, ret, opened>>

parseVars == <<parse_input, result>>

loopVars == <<msg, loop>>

vars == <<open_files, heap, ret, opened, parse_input, result, msg, loop>>

FreeBox == [live |-> FALSE, text |-> <<>>]

NoFile == [present |-> FALSE, hocon |-> [buf |-> 0, tree |-> Unit], content |-> 0]

None == [some |-> FALSE, value |-> Unit]

Some(v) == [some |-> TRUE, value |-> v]

\* Workspace::new, on a heap with no box.
Workspace_new ==
    [open_files |-> [p \in Paths |-> NoFile], heap |-> [a \in Addrs |-> FreeBox]]

\* parse of the texts the Workspace is opened with, evaluated once.
WsParsed == [t \in WsTexts |-> parse(t)]

\* parse::<VerboseError<&str>>(&content)
parse_content(content) ==
    IF content \in DOMAIN WsParsed THEN WsParsed[content] ELSE parse(content)

\* A variant of OpenFile_match that makes an OpenFile of an empty tree out
\* of a text that did not parse.
OpenFile_match_lenient(a, r) ==
    [ok |-> TRUE,
     file |-> [present |-> TRUE,
               hocon |-> [buf |-> a,
                          tree |-> IF r.ok THEN r.value ELSE HoconObject(<<>>)],
               content |-> a]]

\* The match of OpenFile::new on what parse returned: the tree borrows
\* from the box at address a, and an Err leaves no OpenFile.
OpenFile_match(a, r) ==
    IF r.ok
    THEN [ok |-> TRUE,
          file |-> [present |-> TRUE,
                    hocon |-> [buf |-> a, tree |-> r.value],
                    content |-> a]]
    ELSE [ok |-> FALSE, file |-> NoFile]

\* OpenFile::new, Box::new(content) being the box at address a.
OpenFile_new(a, content) == OpenFile_match(a, parse_content(content))

\* A variant of Insert that keeps the entry a path already has
\* (entry().or_insert), dropping the new OpenFile.
Insert_keeps_old(ws, path, file) ==
    IF ws.open_files[path].present
    THEN [open_files |-> ws.open_files,
          heap |-> [ws.heap EXCEPT ![file.content] = FreeBox]]
    ELSE [open_files |-> [ws.open_files EXCEPT ![path] = file], heap |-> ws.heap]

\* A variant of Insert that frees the box of the new OpenFile where it
\* should free the box of the one replaced.
Insert_frees_new_box(ws, path, file) ==
    [open_files |-> [ws.open_files EXCEPT ![path] = file],
     heap |-> IF ws.open_files[path].present
              THEN [ws.heap EXCEPT ![file.content] = FreeBox]
              ELSE ws.heap]

\* A variant of Insert that inserts into a map made anew, dropping every
\* other OpenFile.
Insert_into_new_map(ws, path, file) ==
    [open_files |-> [p \in Paths |-> IF p = path THEN file ELSE NoFile],
     heap |-> [a \in Addrs |-> IF a = file.content THEN ws.heap[a] ELSE FreeBox]]

\* HashMap::insert, and the drop of the OpenFile it returns: the old tree
\* and the old box go together.
Insert(ws, path, file) ==
    [open_files |-> [ws.open_files EXCEPT ![path] = file],
     heap |-> IF ws.open_files[path].present
              THEN [ws.heap EXCEPT ![ws.open_files[path].content] = FreeBox]
              ELSE ws.heap]

\* The heap once Box::new(content) has put the content at the free address a.
Boxed(ws, a, content) ==
    [open_files |-> ws.open_files,
     heap |-> [ws.heap EXCEPT ![a] = [live |-> TRUE, text |-> content]]]

\* Workspace::open_file after OpenFile::new returned r: the `?` returns the
\* Err before insert, and the new box is dropped with it.
open_file_insert(ws, a, path, content, r) ==
    IF r.ok
    THEN [ok |-> TRUE, ws |-> Insert(Boxed(ws, a, content), path, r.file)]
    ELSE [ok |-> FALSE, ws |-> ws]

\* Workspace::open_file on the workspace ws, the new box being at address a.
Workspace_open_file(ws, a, path, content) ==
    open_file_insert(ws, a, path, content, OpenFile_new(a, content))

\* OpenFile::get_ast read through: what the tree says, its slices read
\* from the box it borrows from.
OpenFile_get_ast(hp, file) ==
    IF hp[file.hocon.buf].live
    THEN ValueContent(file.hocon.tree, hp[file.hocon.buf].text)
    ELSE ValueContent(file.hocon.tree, <<>>)

\* Workspace::get_ast
Workspace_get_ast(ws, path) ==
    IF ws.open_files[path].present
    THEN Some(OpenFile_get_ast(ws.heap, ws.open_files[path]))
    ELSE None

FreeAddrs(hp) == {a \in Addrs : ~hp[a].live}

TheWorkspace == [open_files |-> open_files, heap |-> heap]

\* The Workspace after the step.
TheWorkspaceNext == [open_files |-> open_files', heap |-> heap']

NotOpened == [some |-> FALSE, text |-> <<>>, ast |-> None]

InitWs ==
    /\ open_files = Workspace_new.open_files
    /\ heap = Workspace_new.heap
    /\ ret = [op |-> "new", path |-> 0, text |-> <<>>, ok |-> TRUE,
              old |-> NotOpened, ast |-> None]
    /\ opened = [p \in Paths |-> NotOpened]

\* The step of the model that calls open_file, r being what it returned.
open_file_returns(path, content, r) ==
    /\ open_files' = r.ws.open_files
    /\ heap' = r.ws.heap
    /\ ret' = [op |-> "open_file", path |-> path, text |-> content,
               ok |-> r.ok, old |-> opened[path], ast |-> None]
    /\ opened' = IF r.ok
                 THEN [opened EXCEPT ![path] =
                          [some |-> TRUE, text |-> content,
                           ast |-> Workspace_get_ast(r.ws, path)]]
                 ELSE opened
    /\ UNCHANGED <<parseVars, loopVars>>

open_file(path, content) ==
    \E a \in FreeAddrs(heap) :
        open_file_returns(path, content,
                          Workspace_open_file(TheWorkspace, a, path, content))

get_ast(path) ==
    /\ ret' = [op |-> "get_ast", path |-> path, text |-> <<>>, ok |-> TRUE,
               old |-> NotOpened, ast |-> Workspace_get_ast(TheWorkspace, path)]
    /\ UNCHANGED <<open_files, heap, opened, parseVars, loopVars>>

\* The close of a document by the host: textDocument/didClose is not the
\* notification main_loop casts to, so its Err arm logs it and the
\* Workspace, which has no method that removes an entry, is not called.
did_close(path) ==
    /\ ret' = [op |-> "did_close", path |-> path, text |-> <<>>, ok |-> TRUE,
               old |-> NotOpened, ast |-> None]
    /\ UNCHANGED <<open_files, heap, opened, parseVars, loopVars>>

InitParseIdle == parse_input = <<>> /\ result = Unit

InitLoopIdle == msg = Unit /\ loop = Unit

NextWs ==
    \/ \E path \in Paths, content \in WsTexts : open_file(path, content)
    \/ \E path \in Paths : get_ast(path)
    \/ \E path \in Paths : did_close(path)

Init == InitWs /\ InitParseIdle /\ InitLoopIdle

Next == NextWs

Spec == Init /\ [][Next]_vars

(***************************************************************************)
(* main_loop (hocon-ls/src/main.rs): one step handles one message of       *)
(* connection.receiver.  loop holds                                        *)
(*   status    running, returned (after shutdown) or panicked              *)
(*   ws_start  the Workspace as the handling of the last message began     *)
(*   ws_end    the Workspace as it ended, before the iteration dropped it  *)
(*   prev_end  ws_end of the message before, None for the first message    *)
(*   sent      the Responses sent while the last message was handled       *)
(*   logged    whether a parse failure was written to stderr               *)
(***************************************************************************)
RequestIds == {1, 2}

RequestMethods == {"textDocument/definition", "shutdown", "textDocument/hover"}

NotificationMethods == {"textDocument/didOpen", "textDocument/didClose"}

Message(kind, id, method, wellFormed, path, text) ==
    [kind |-> kind, id |-> id, method |-> method, wellFormed |-> wellFormed,
     path |-> path, text |-> text]

\* What one iteration leaves: the body of the for loop begins with
\* let mut workspace = Workspace::new(), so ws_start is a new Workspace
\* whatever the iteration before left.
Iteration(status, ws_end, sent, logged) ==
    [status |-> status,
     ws_start |-> Workspace_new,
     ws_end |-> ws_end,
     prev_end |-> IF loop.handled THEN Some(loop.ws_end) ELSE None,
     handled |-> TRUE,
     sent |-> sent,
     logged |-> logged]

\* A variant of DefinitionResponse that answers under the first id.
DefinitionResponse_first_id(id) == [id |-> 1, result |-> <<>>, error |-> FALSE]

\* The Response to a textDocument/definition request:
\* GotoDefinitionResponse::Array(Vec::new()) under the id of the request.
DefinitionResponse(id) == [id |-> id, result |-> <<>>, error |-> FALSE]

\* connection.handle_shutdown answers a shutdown request and main_loop
\* returns.
ShutdownResponse(id) == [id |-> id, result |-> <<"null">>, error |-> FALSE]

InitLoop ==
    /\ msg = Unit
    /\ loop = [status |-> "running",
               ws_start |-> Workspace_new,
               ws_end |-> Workspace_new,
               prev_end |-> None,
               handled |-> FALSE,
               sent |-> <<>>,
               logged |-> FALSE]

\* Message::Request(req); path is the uri the params of the request name.
handle_request(id, method, wellFormed, path) ==
    /\ loop.status = "running"
    /\ msg' = Message("Request", id, method, wellFormed, path, <<>>)
    /\ loop' =
          IF method = "shutdown"
          THEN Iteration("returned", Workspace_new, <<ShutdownResponse(id)>>, FALSE)
          ELSE IF method = "textDocument/definition"
          THEN (IF wellFormed
                THEN Iteration("running", Workspace_new,
                               <<DefinitionResponse(id)>>, FALSE)
                ELSE Iteration("panicked", Workspace_new, <<>>, FALSE))
          ELSE Iteration("running", Workspace_new, <<>>, FALSE)
    /\ UNCHANGED <<wsVars, parseVars>>

\* Message::Response(resp)
handle_response(id) ==
    /\ loop.status = "running"
    /\ msg' = Message("Response", id, "", TRUE, 0, <<>>)
    /\ loop' = Iteration("running", Workspace_new, <<>>, FALSE)
    /\ UNCHANGED <<wsVars, parseVars>>

\* A variant of did_open_match that unwraps what open_file returned.
did_open_match_unwraps(r) ==
    Iteration(IF r.ok THEN "running" ELSE "panicked", r.ws, <<>>, FALSE)

\* The match on workspace.open_file(..): r is what it returned.
did_open_match(r) == Iteration("running", r.ws, <<>>, ~r.ok)

\* Message::Notification(not) cast to DidOpenTextDocument with success.
handle_did_open(path, text) ==
    /\ loop.status = "running"
    /\ msg' = Message("Notification", 0, "textDocument/didOpen", TRUE, path, text)
    /\ \E a \in FreeAddrs(Workspace_new.heap) :
          loop' = did_open_match(Workspace_open_file(Workspace_new, a, path, text))
    /\ UNCHANGED <<wsVars, parseVars>>

\* Message::Notification(not) that the cast refuses: another method, or
\* params that are not those of didOpen; it is logged.
handle_other_notification(method, wellFormed, path) ==
    /\ loop.status = "running"
    /\ method # "textDocument/didOpen" \/ ~wellFormed
    /\ msg' = Message("Notification", 0, method, wellFormed, path, <<>>)
    /\ loop' = Iteration("running", Workspace_new, <<>>, FALSE)
    /\ UNCHANGED <<wsVars, parseVars>>

NextLoop ==
    \/ \E id \in RequestIds, method \in RequestMethods, wellFormed \in BOOLEAN,
          path \in Paths :
          handle_request(id, method, wellFormed, path)
    \/ \E id \in RequestIds : handle_response(id)
    \/ \E path \in Paths, text \in WsTexts : handle_did_open(path, text)
    \/ \E method \in NotificationMethods, wellFormed \in BOOLEAN, path \in Paths :
          handle_other_notification(method, wellFormed, path)

InitOfLoop == InitWs /\ InitParseIdle /\ InitLoop

SpecLoop == InitOfLoop /\ [][NextLoop]_vars

(***************************************************************************)
(* parse and the rules of the grammar applied to texts: the text is drawn  *)
(* from the concatenations of at most MaxLexemes lexemes, and one step     *)
(* applies parse, or one rule at the start of the text.  result holds what *)
(* was applied (op), what it returned (ret) and, for parse, the position   *)
(* rest at which the remaining input that parse drops begins (0 on Err).   *)
(***************************************************************************)
MaxLexemes == 3

Lexemes ==
    { <<"n","u","l","l">>, <<"t","r","u","e">>, <<"f","a","l","s","e">>,
      <<" ">>, <<"\n">>, <<"{">>, <<"}">>, <<"a">>, <<":">>, <<"1">> }

RECURSIVE Flatten(_)
Flatten(ls) == IF ls = <<>> THEN <<>> ELSE Head(ls) \o Flatten(Tail(ls))

Texts == {Flatten(ls) : ls \in UNION {[1..n -> Lexemes] : n \in 0..MaxLexemes}}

\* The texts that begin as a quoted string does: a quote, then at most
\* MaxLexemes of these.
QuotedLexemes == { <<"a">>, <<"1">>, <<".">>, <<"-">>, <<" ">>, <<"\"">> }

QuotedTexts ==
    {<<"\"">> \o Flatten(ls) :
        ls \in UNION {[1..n -> QuotedLexemes] : n \in 0..MaxLexemes}}

IncludeToken ==
    <<"i","n","c","l","u","d","e"," ","f","i","l","e","(","\"","f","\"",")">>

\* The texts that begin as a value does, and go on.
ValueHeads ==
    { IncludeToken, <<"[","1","]">>, <<"[">>, <<"\"","a","\"">>, <<"1","e">>,
      <<"1",".","5">>, <<"i","n","f">>, <<"a",":","1","e">>, <<"-">> }

ValueTails == { <<>>, <<"x">>, <<",">>, <<" ","1">> }

ValueTexts == {h \o t : h \in ValueHeads, t \in ValueTails}

\* The texts of a key-value pair: a key, whitespace or none, a separator
\* and a value (a braced object when the separator is the brace looked
\* at), and what follows the pair.
KeyValueParts ==
    [key : {<<"a">>, <<"\"","k","\"">>},
     ws1 : {<<>>, <<" ">>},
     sep : {<<":">>, <<"=">>},
     ws2 : {<<>>, <<" ">>},
     value : {<<"1">>, <<"x">>, <<"{","b",":","1","}">>},
     tail : {<<>>, <<" ">>, <<",">>, <<" ",",">>, <<",",",">>, <<" ",","," ">>,
             <<"\n","}">>}]
    \cup
    [key : {<<"a">>, <<"\"","k","\"">>},
     ws1 : {<<>>, <<" ">>},
     sep : {<<>>},
     ws2 : {<<>>},
     value : {<<"{","b",":","1","}">>},
     tail : {<<>>, <<" ">>, <<",">>, <<" ",",">>, <<",",",">>, <<" ",","," ">>,
             <<"\n","}">>}]

KeyValueText(kv) == kv.key \o kv.ws1 \o kv.sep \o kv.ws2 \o kv.value \o kv.tail

KeyValueTexts == {KeyValueText(kv) : kv \in KeyValueParts}

ParseTexts == Texts \cup QuotedTexts \cup ValueTexts \cup KeyValueTexts

InitParse == parse_input \in ParseTexts /\ result = Unit

\* parse::<VerboseError<&str>>(parse_input)
apply_parse ==
    /\ result = Unit
    /\ result' = [op |-> "parse", ret |-> parse(parse_input),
                  rest |-> parse_alt(parse_input).pos]
    /\ UNCHANGED <<parse_input, wsVars, loopVars>>

\* null::<VerboseError<&str>>(parse_input)
apply_null ==
    /\ result = Unit
    /\ result' = [op |-> "null", ret |-> null(parse_input, 1), rest |-> 0]
    /\ UNCHANGED <<parse_input, wsVars, loopVars>>

\* boolean::<VerboseError<&str>>(parse_input)
apply_boolean ==
    /\ result = Unit
    /\ result' = [op |-> "boolean", ret |-> boolean(parse_input, 1), rest |-> 0]
    /\ UNCHANGED <<parse_input, wsVars, loopVars>>

\* quoted_string::<VerboseError<&str>>(parse_input)
apply_quoted_string ==
    /\ result = Unit
    /\ result' = [op |-> "quoted_string", ret |-> quoted_string(parse_input, 1),
                  rest |-> 0]
    /\ UNCHANGED <<parse_input, wsVars, loopVars>>

\* parse_value::<VerboseError<&str>>(parse_input)
apply_parse_value ==
    /\ result = Unit
    /\ result' = [op |-> "parse_value", ret |-> parse_value(parse_input, 1),
                  rest |-> 0]
    /\ UNCHANGED <<parse_input, wsVars, loopVars>>

\* key_value::<VerboseError<&str>>(parse_input)
apply_key_value ==
    /\ result = Unit
    /\ result' = [op |-> "key_value", ret |-> key_value(parse_input, 1),
                  rest |-> 0]
    /\ UNCHANGED <<parse_input, wsVars, loopVars>>

NextParse ==
    \/ apply_parse
    \/ apply_null
    \/ apply_boolean
    \/ apply_quoted_string
    \/ apply_parse_value
    \/ apply_key_value

InitOfParse == InitWs /\ InitParse /\ InitLoopIdle

SpecParse == InitOfParse /\ [][NextParse]_vars

(***************************************************************************)
(* The array rule applied to the texts made of a list of elements: here    *)
(* parse_input is the list of the texts of the elements, and one step      *)
(* applies array to the three texts the list is written as: the elements   *)
(* joined by commas, joined by newlines, and joined by commas with one     *)
(* more comma before the closing bracket.                                  *)
(***************************************************************************)
MaxElements == 3

Elements ==
    { <<"1">>, <<"n","u","l","l">>, <<"a">>, <<"\"","x","\"">>,
      <<"[","2","]">>, <<"{","b",":","1","}">> }

ElementLists == UNION {[1..n -> Elements] : n \in 0..MaxElements}

RECURSIVE Join(_, _)
Join(parts, sep) ==
    IF parts = <<>> THEN <<>>
    ELSE IF Len(parts) = 1 THEN parts[1]
    ELSE parts[1] \o sep \o Join(Tail(parts), sep)

CommaJoined(elems) == <<"[">> \o Join(elems, <<",">>) \o <<"]">>

NewlineJoined(elems) == <<"[">> \o Join(elems, <<"\n">>) \o <<"]">>

TrailingComma(elems) == <<"[">> \o Join(elems, <<",">>) \o <<",", "]">>

\* What a rule returned on a text, as a test reads it: the rest of the
\* input (whole when none is left) and the value with its slices read.
Outcome(r, text) ==
    IF r.st = "ok"
    THEN [ok |-> TRUE, whole |-> r.pos = Len(text) + 1,
          value |-> ValueContent(r.val, text)]
    ELSE [ok |-> FALSE, whole |-> FALSE, value |-> Unit]

array_outcome(text) == Outcome(array(text, 1), text)

InitArray == parse_input \in ElementLists /\ result = Unit

apply_array ==
    /\ result = Unit
    /\ result' = [op |-> "array",
                  comma |-> array_outcome(CommaJoined(parse_input)),
                  newline |-> array_outcome(NewlineJoined(parse_input)),
                  trailing |-> array_outcome(TrailingComma(parse_input))]
    /\ UNCHANGED <<parse_input, wsVars, loopVars>>

NextArray == apply_array

InitOfArray == InitWs /\ InitArray /\ InitLoopIdle

SpecArray == InitOfArray /\ [][NextArray]_vars

(***************************************************************************)
(* parse applied to the texts made of a list of fields: here parse_input   *)
(* is the list of the texts of the fields and the separator written        *)
(* between them, and one step applies parse to the three texts the list is *)
(* written as: the fields in braces, the fields alone, and the fields in   *)
(* braces with a space inside each brace.                                  *)
(***************************************************************************)
MaxFields == 3

Fields ==
    { <<"a",":","1">>, <<"a",":","2">>, <<"b",":","x">>,
      <<"i","n","c","l","u","d","e"," ","f","i","l","e","(","\"","f","\"",")">>,
      <<"c","=","i","n","c","l","u","d","e"," ","u","r","l","(","\"","u","\"",")">> }

FieldSeparators == { <<",">>, <<"\n">> }

FieldLists == UNION {[1..n -> Fields] : n \in 0..MaxFields}

Braced(input) == <<"{">> \o Join(input.fields, input.sep) \o <<"}">>

Braceless(input) == Join(input.fields, input.sep)

SpacedBraced(input) == <<"{", " ">> \o Join(input.fields, input.sep) \o <<" ", "}">>

\* What parse returned on a text, as a test reads it.
parse_outcome_of(r, text) ==
    IF r.ok THEN [ok |-> TRUE, value |-> ValueContent(r.value, text)]
    ELSE [ok |-> FALSE, value |-> Unit]

parse_outcome(text) == parse_outcome_of(parse(text), text)

InitFields ==
    /\ parse_input \in [fields : FieldLists, sep : FieldSeparators]
    /\ result = Unit

apply_parse_fields ==
    /\ result = Unit
    /\ result' = [op |-> "parse_fields",
                  braced |-> parse_outcome(Braced(parse_input)),
                  braceless |-> parse_outcome(Braceless(parse_input)),
                  spaced |-> parse_outcome(SpacedBraced(parse_input))]
    /\ UNCHANGED <<parse_input, wsVars, loopVars>>

NextFields == apply_parse_fields

InitOfFields == InitWs /\ InitFields /\ InitLoopIdle

SpecFields == InitOfFields /\ [][NextFields]_vars

(***************************************************************************)
(* parse applied to a text and to the same text with whitespace put        *)
(* between two of its tokens: here parse_input is the list of the tokens   *)
(* of a text that parses, the token after which the whitespace goes, and   *)
(* the whitespace.                                                         *)
(***************************************************************************)
TokenLists ==
    { << <<"{">>, <<"a">>, <<":">>, <<"[">>, <<"1">>, <<",">>, <<"2">>, <<"]">>, <<"}">> >>,
      << <<"a">>, <<":">>, <<"[">>, <<"1">>, <<"\n">>, <<"2">>, <<"]">> >>,
      << <<"a">>, <<"=">>, <<"[">>, <<"]">> >>,
      << <<"{">>, IncludeToken, <<"a">>, <<":">>, <<"1">>, <<"}">> >>,
      << <<"a">>, <<"{">>, <<"b">>, <<":">>, <<"x">>, <<"}">> >>,
      << <<"{">>, <<"}">> >> }

Whitespaces == { <<" ">>, <<"\n">>, <<"\t">> }

SpacingInputs ==
    UNION {[tokens : {ts}, at : 1..(Len(ts) - 1), ws : Whitespaces] : ts \in TokenLists}

Plain(input) == Flatten(input.tokens)

Spaced(input) ==
    Flatten(SubSeq(input.tokens, 1, input.at)) \o input.ws
       \o Flatten(SubSeq(input.tokens, input.at + 1, Len(input.tokens)))

InitSpacing == parse_input \in SpacingInputs /\ result = Unit

apply_parse_spaced ==
    /\ result = Unit
    /\ result' = [op |-> "parse_spaced",
                  plain |-> parse_outcome(Plain(parse_input)),
                  spaced |-> parse_outcome(Spaced(parse_input))]
    /\ UNCHANGED <<parse_input, wsVars, loopVars>>

NextSpacing == apply_parse_spaced

InitOfSpacing == InitWs /\ InitSpacing /\ InitLoopIdle

SpecSpacing == InitOfSpacing /\ [][NextSpacing]_vars

(***************************************************************************)
(* Properties of the Workspace                                             *)
(***************************************************************************)
\* parse applied directly to a text, and what the tree says.
DirectParse(t) == ValueContent(parse(t).value, t)

\* C1: an open_file whose text fails to parse returns the Err and installs
\* nothing: the entries of every path, that of the path opened included,
\* and every box are after the call what they were before it.
C1_FailedOpenInstallsNothing ==
    [][(ret'.op = "open_file" /\ ~parse(ret'.text).ok) =>
          /\ ~ret'.ok
          /\ open_files' = open_files
          /\ heap' = heap]_vars

\* C1 witness: an open_file that failed on a path that had a Document.
C1_Witness ==
    /\ ret.op = "open_file"
    /\ ~ret.ok
    /\ ~parse(ret.text).ok
    /\ open_files[ret.path].present

\* C2: get_ast of a path returns the tree of parse applied directly to the
\* text of the last successful open_file of the path, and None for a path
\* no open_file succeeded on; so does the get_ast that has just returned.
C2_LookupIsLastSuccessfulOpen ==
    /\ \A p \in Paths :
          Workspace_get_ast(TheWorkspace, p) =
             IF opened[p].some THEN Some(DirectParse(opened[p].text)) ELSE None
    /\ ret.op = "get_ast" =>
          ret.ast = IF opened[ret.path].some
                    THEN Some(DirectParse(opened[ret.path].text))
                    ELSE None

\* C2 witness: an open_file has replaced the Document of a path by one of
\* another text and tree, and the older tree is no longer returned.
C2_Witness ==
    /\ ret.op = "open_file"
    /\ ret.ok
    /\ ret.old.some
    /\ ret.old.text # ret.text
    /\ Workspace_get_ast(TheWorkspace, ret.path) # ret.old.ast
    /\ Workspace_get_ast(TheWorkspace, ret.path) = Some(DirectParse(ret.text))

\* C3 as the spec states it: after the host closed a path, get_ast of the
\* path returns None.  The Workspace has no operation that removes an entry,
\* so the Document of a closed path stays.
C3_CloseRemoves ==
    ret.op = "did_close" => Workspace_get_ast(TheWorkspace, ret.path) = None

\* C5: every OpenFile is a matching pair: its tree borrows from its own
\* box, the box is live, the tree is what parse returns on the text of
\* the box, every slice of the tree lies in that text, and no other
\* OpenFile has the box.
C5_MatchingPair(p) ==
    /\ open_files[p].hocon.buf = open_files[p].content
    /\ open_files[p].content \in Addrs
    /\ heap[open_files[p].content].live
    /\ parse(heap[open_files[p].content].text) = ParseOk(open_files[p].hocon.tree)
    /\ \A sl \in ValueSlices(open_files[p].hocon.tree) :
          /\ sl.from >= 1
          /\ sl.from + sl.len - 1 <= Len(heap[open_files[p].content].text)
    /\ \A q \in Paths \ {p} :
          open_files[q].present => open_files[q].content # open_files[p].content

C5_DocumentsAreMatchingPairs ==
    \A p \in Paths : open_files[p].present => C5_MatchingPair(p)

\* C5 witness: a Document whose tree has slices has replaced another, the
\* box of which is free again, while another path has a Document too.
C5_Witness ==
    /\ ret.op = "open_file"
    /\ ret.ok
    /\ ret.old.some
    /\ ValueSlices(open_files[ret.path].hocon.tree) # {}
    /\ \E q \in Paths \ {ret.path} : open_files[q].present
    /\ \E a \in Addrs : ~heap[a].live

\* C6: an operation on a path leaves the entry of every other path, and
\* the tree get_ast returns for it, as they were; get_ast changes no entry
\* and no box.
C6_OtherPathsUnchanged ==
    [][/\ \A p \in Paths \ {ret'.path} :
             /\ open_files'[p] = open_files[p]
             /\ Workspace_get_ast(TheWorkspaceNext, p) =
                   Workspace_get_ast(TheWorkspace, p)
       /\ ret'.op = "get_ast" => (open_files' = open_files /\ heap' = heap)]_vars

\* C6 witness: an open_file replaced the Document of one path while
\* another path had a Document.
C6_Witness ==
    /\ ret.op = "open_file"
    /\ ret.ok
    /\ ret.old.some
    /\ ret.old.text # ret.text
    /\ \E q \in Paths \ {ret.path} : open_files[q].present

\* C7: an open_file of a path with the text of the last successful
\* open_file of that path leaves get_ast returning the tree it returned
\* right after that earlier open_file.
C7_ReopenSameText ==
    [][(/\ ret'.op = "open_file"
        /\ ret'.ok
        /\ opened[ret'.path].some
        /\ opened[ret'.path].text = ret'.text) =>
          /\ Workspace_get_ast(TheWorkspaceNext, ret'.path) = opened[ret'.path].ast
          /\ Workspace_get_ast(TheWorkspaceNext, ret'.path) =
                Workspace_get_ast(TheWorkspace, ret'.path)]_vars

\* C7 witness: a path opened a second time with the text it had, the tree
\* having fields.
C7_Witness ==
    /\ ret.op = "open_file"
    /\ ret.ok
    /\ ret.old.some
    /\ ret.old.text = ret.text
    /\ ret.old.ast = Workspace_get_ast(TheWorkspace, ret.path)
    /\ ret.old.ast.value.fields # <<>>

(***************************************************************************)
(* Properties of main_loop                                                 *)
(***************************************************************************)
\* C4 as the spec states it: the Workspace as the handling of a message
\* begins is the Workspace the handling of the message before left: every
\* path has the Document, and get_ast returns the tree, it had then.
C4_WorkspaceSurvivesMessages ==
    loop.prev_end.some =>
       \A p \in Paths :
          Workspace_get_ast(loop.ws_start, p) =
             Workspace_get_ast(loop.prev_end.value, p)

(***************************************************************************)
(* Properties of parse                                                     *)
(***************************************************************************)
Applied(op) == result # Unit /\ result.op = op

Whole(text) == Len(text) + 1

WhitespaceOnly(text) == \A k \in 1..Len(text) : is_hocon_whitespace(text[k])

\* C8 as the spec states it: a parse that succeeds accounts for the whole
\* text; a text with input left that matched nothing is a ParseFailure.
C8_SuccessAccountsForWholeText ==
    (Applied("parse") /\ result.ret.ok) => result.rest = Whole(parse_input)

\* C9: parse of the empty text, and of a text of whitespace characters
\* only, succeeds with an Object of no field.
C9_WhitespaceOnlyIsEmptyObject ==
    (Applied("parse") /\ WhitespaceOnly(parse_input)) =>
       result.ret = ParseOk(HoconObject(<<>>))

C9_Witness ==
    /\ Applied("parse")
    /\ parse_input = <<" ", "\n", " ">>
    /\ result.ret = ParseOk(HoconObject(<<>>))

\* C10 as the spec states it: parse of the whole text null yields Null, and
\* parse of the whole text true or false the Boolean.
C10_ParseOfKeywordYieldsValue ==
    Applied("parse") =>
       /\ parse_input = <<"n","u","l","l">> => result.ret = ParseOk(HoconNull)
       /\ parse_input = <<"t","r","u","e">> => result.ret = ParseOk(HoconBoolean(TRUE))
       /\ parse_input = <<"f","a","l","s","e">> =>
             result.ret = ParseOk(HoconBoolean(FALSE))

IsKeyword(text) ==
    text \in {<<"n","u","l","l">>, <<"t","r","u","e">>, <<"f","a","l","s","e">>}

\* C10, amended: it is the rule null that, applied to the whole text null,
\* yields Null, and the rule boolean that, applied to the whole text true
\* or false, yields the Boolean, each taking the whole text; parse of these
\* texts is a ParseFailure.
C10_RuleOfKeywordYieldsValue ==
    /\ (Applied("null") /\ parse_input = <<"n","u","l","l">>) =>
          result.ret = Ok(Whole(parse_input), HoconNull)
    /\ (Applied("boolean") /\ parse_input = <<"t","r","u","e">>) =>
          result.ret = Ok(Whole(parse_input), HoconBoolean(TRUE))
    /\ (Applied("boolean") /\ parse_input = <<"f","a","l","s","e">>) =>
          result.ret = Ok(Whole(parse_input), HoconBoolean(FALSE))
    /\ (Applied("parse") /\ IsKeyword(parse_input)) => result.ret = ParseError

C10_Witness ==
    /\ Applied("boolean")
    /\ parse_input = <<"f","a","l","s","e">>
    /\ result.ret = Ok(6, HoconBoolean(FALSE))

(***************************************************************************)
(* Properties of the rules of the grammar                                  *)
(***************************************************************************)
\* The value of one element written alone.
ElementValue(e) == ValueContent(parse_value(e, 1).val, e)

ArrayOf(elems) ==
    [ok |-> TRUE, whole |-> TRUE,
     value |-> HoconArray([k \in 1..Len(elems) |-> ElementValue(elems[k])])]

\* C11 as the spec states it: for every list of elements, the text with the
\* elements joined by commas, the text with them joined by newlines and the
\* comma-joined text with a trailing comma parse to the same Array, which
\* holds the elements in order.
C11_SeparatorsAreEquivalent ==
    Applied("array") =>
       /\ result.comma = ArrayOf(parse_input)
       /\ result.newline = result.comma
       /\ result.trailing = result.comma

\* The field one text of Fields is, written alone.
FieldValue(f) == FieldContent(object_field(f, 1).val, f)

ObjectOf(fields) ==
    [ok |-> TRUE,
     value |-> HoconObject([k \in 1..Len(fields) |-> FieldValue(fields[k])])]

IsInclude(f) == FieldValue(f).tag = "Include"

KeyValuesOnly(fields) == \A k \in 1..Len(fields) : ~IsInclude(fields[k])

C13_BracelessEqualsBraced ==
    (Applied("parse_fields") /\ parse_input.fields # <<>>) =>
       result.braceless = result.spaced

\* C14 as the spec states it: every include directive written among the
\* fields becomes an Include field at its place in the sequence of fields,
\* and one written as the value of a pair the Include value of the pair.
C14_IncludesAtSourcePosition ==
    Applied("parse_fields") => result.braceless = ObjectOf(parse_input.fields)

Handled(kind, method) ==
    /\ msg # Unit
    /\ msg.kind = kind
    /\ msg.method = method
    /\ msg.wellFormed

\* C15: a textDocument/definition request is answered, while it is
\* handled, with exactly one Response, which carries the id of the request
\* and an empty list of locations, whatever uri it asks about and whatever
\* the Workspace held before it.
C15_DefinitionAnsweredOnce ==
    Handled("Request", "textDocument/definition") =>
       /\ loop.sent = << [id |-> msg.id, result |-> <<>>, error |-> FALSE] >>
       /\ loop.status = "running"

\* C15 witness: the second id asks about the second path, right after a
\* didOpen registered a Document.
C15_Witness ==
    /\ Handled("Request", "textDocument/definition")
    /\ msg.id = 2
    /\ msg.path = 2
    /\ loop.prev_end.some
    /\ \E p \in Paths : loop.prev_end.value.open_files[p].present
    /\ Len(loop.sent) = 1

\* C16: a didOpen whose text fails to parse is logged and nothing else:
\* no Response is sent, no Document is installed for its uri, and the loop
\* is still running, ready for the next message.
C16_FailedOpenIsOnlyLogged ==
    (Handled("Notification", "textDocument/didOpen") /\ ~parse(msg.text).ok) =>
       /\ loop.logged
       /\ loop.sent = <<>>
       /\ Workspace_get_ast(loop.ws_end, msg.path) = None
       /\ loop.status = "running"

\* C16 witness: a didOpen that failed was handled after another message.
C16_Witness ==
    /\ Handled("Notification", "textDocument/didOpen")
    /\ ~parse(msg.text).ok
    /\ loop.logged
    /\ loop.prev_end.some

\* A quoted string whose body is the maximal run, from the second
\* character of the text, of characters of the set body: it is accepted,
\* with that run as value, when a quote follows the run.
QuotedWithBody(text, body) ==
    IF text = <<>> \/ Head(text) # "\"" THEN Error
    ELSE IF /\ RunEnd(body, text, 2) <= Len(text)
            /\ text[RunEnd(body, text, 2)] = "\""
    THEN Ok(RunEnd(body, text, 2) + 1, Slice(2, RunEnd(body, text, 2) - 2))
    ELSE Error

\* The characters the texts are written with.
Alphabet ==
    UNION {{l[k] : k \in 1..Len(l)} : l \in Lexemes \cup QuotedLexemes}

\* C17 as the spec states it: the body is the maximal run of characters
\* that are not alphanumeric and not the dot (nor the quote that ends it).
C17_BodyIsRunOfNonAlphanumerics ==
    Applied("quoted_string") =>
       result.ret =
          QuotedWithBody(parse_input,
                         {c \in Alphabet : ~is_alphanum(c) /\ c \notin {".", "\""}})

\* C17, amended: the body is the maximal run, after the opening quote, of
\* characters that are alphanumeric or the dot, and the string is accepted
\* only if that run is immediately followed by the closing quote.
C17_BodyIsRunOfAlphanumerics ==
    Applied("quoted_string") =>
       result.ret =
          QuotedWithBody(parse_input,
                         LowerAlpha \cup UpperAlpha \cup Digits \cup {"."})

\* C17 witness: the body a. is accepted.
C17_Witness ==
    /\ Applied("quoted_string")
    /\ parse_input = <<"\"", "a", ".", "\"">>
    /\ result.ret = Ok(5, Slice(2, 2))

\* C18 as the spec states it: whitespace put between two adjacent tokens of
\* a text that parses gives a text that parses to the same tree.
C18_WhitespaceBetweenTokens ==
    (Applied("parse_spaced") /\ result.plain.ok) => result.spaced = result.plain

\* The alternatives of a value in the order the spec gives them, each
\* applied at the start of the text.
AlternativesInOrder(text) ==
    << null(text, 1),
       MapOk(include(text, 1), HoconInclude),
       boolean(text, 1),
       number(text, 1),
       array(text, 1),
       parse_object(text, 1),
       MapOk(unquoted_string(text, 1), LAMBDA v : HoconString("Unqouted", v)),
       MapOk(quoted_string(text, 1), LAMBDA v : HoconString("Quoted", v)) >>

Succeeding(alts) == {k \in 1..Len(alts) : alts[k].st = "ok"}

FirstSucceeding(alts) ==
    alts[CHOOSE k \in Succeeding(alts) : \A j \in Succeeding(alts) : k <= j]

\* C19 as the spec states it: the result of a value is that of the first
\* alternative, in the order null, include, boolean, number, array, object,
\* unquoted string, quoted string, that succeeds at the position, and a
\* value fails only when none does.
C19_FirstMatchWins ==
    Applied("parse_value") =>
       IF Succeeding(AlternativesInOrder(parse_input)) # {}
       THEN result.ret = FirstSucceeding(AlternativesInOrder(parse_input))
       ELSE result.ret.st # "ok"

\* The characters of the start of a text that next_element_whitespace
\* takes: the whitespace, then one comma if one follows.
RECURSIVE LeadingWhitespace(_)
LeadingWhitespace(text) ==
    IF text # <<>> /\ is_hocon_whitespace(Head(text))
    THEN 1 + LeadingWhitespace(Tail(text))
    ELSE 0

TailTaken(tail) ==
    IF /\ LeadingWhitespace(tail) < Len(tail)
       /\ tail[LeadingWhitespace(tail) + 1] = ","
    THEN LeadingWhitespace(tail) + 1
    ELSE LeadingWhitespace(tail)

KeyOf(kv) == IF Head(kv.key) = "\"" THEN SubSeq(kv.key, 2, Len(kv.key) - 1) ELSE kv.key

\* C20: key_value reads a quoted or unquoted string as key, whitespace or
\* none, one separator (a colon or an equals sign, consumed, or a brace
\* that is left for the value, so that a key and a braced object make a
\* pair), whitespace or none and the value, and then takes the whitespace
\* that follows and at most one comma.
C20_KeyValueShape ==
    Applied("key_value") =>
       \A kv \in KeyValueParts :
          parse_input = KeyValueText(kv) =>
             /\ result.ret.st = "ok"
             /\ SliceText(parse_input, result.ret.val.key) = KeyOf(kv)
             /\ ValueContent(result.ret.val.value, parse_input) = ElementValue(kv.value)
             /\ result.ret.pos =
                   Len(parse_input) - Len(kv.tail) + TailTaken(kv.tail) + 1

\* C20 witness: a key and a braced object with nothing but a space between
\* them, then two commas, of which the second is left.
C20_Witness ==
    /\ Applied("key_value")
    /\ parse_input = <<"a", " ", "{", "b", ":", "1", "}", ",", ",">>
    /\ result.ret.st = "ok"
    /\ result.ret.val.value.tag = "HoconObject"
    /\ result.ret.pos = Len(parse_input)

====
